---- MODULE Spec2Model ----
(***************************************************************************)
(* Model of the farm pipeline's core: the Redis state store               *)
(* (redis_storage.py), the Redis description workflow                     *)
(* (redis_description_workflow.py), the file-based description workflow   *)
(* with its retrying API calls (farm_description_workflow.py), the        *)
(* token-bucket and adaptive rate limiters (utils/rate_limiter.py) and    *)
(* the retry decorator and RetryContext (utils/retry.py).                 *)
(*                                                                         *)
(* Each component has its own specification (SpecStore, SpecRace,         *)
(* SpecJournal, SpecWorkflow, SpecLimiter, SpecBurst, SpecStream,         *)
(* SpecCancel, SpecFair, SpecDefault, SpecAdaptive,                        *)
(* SpecRetry, SpecApi, SpecContext); a specification leaves the variables *)
(* of the other components at their initial values.                       *)
(***************************************************************************)
EXTENDS Integers, Sequences, FiniteSets, TLC

VARIABLES
    redis,      \* the Redis keyspace: the four index sets and the farm:{id} hashes
    clock,      \* datetime.now() of the storage layer
    writer,     \* per concurrent caller of update_farm_description: its position
    run,        \* the workflow process (main + process_farm_batch)
    hist,       \* history of the workflow, for the claims only
    bucket,     \* RateLimiter fields: tokens, last_update, lock
    now,        \* time.time() seen by the rate limiter
    task,       \* per task calling RateLimiter.acquire: its position
    lhist,      \* history of the limiter, for the claims only
    retry,      \* one call of retry_async's wrapper
    adaptive,   \* an AdaptiveRateLimiter and the calls made on it
    ctx,        \* a RetryContext and the `async with` statement using it
    slog,       \* journal of the store: the last operation, for the claims only
    api,        \* farm_description_workflow.process_farm_batch
    dflt        \* the rate_limited_call invocations made without a rate_limiter

storeVars == <<redis, clock, writer>>
flowVars  == <<run, hist>>
limVars   == <<bucket, now, task, lhist>>
retryVars == <<retry>>
moreVars  == <<adaptive, ctx, dflt>>

\* What the steps of one component leave alone.
notStore   == <<flowVars, limVars, retryVars, moreVars, slog, api>>
notFlow    == <<clock, writer, limVars, retryVars, moreVars, slog, api>>
notLimiter == <<storeVars, flowVars, retryVars, moreVars, slog, api>>
notRetry   == <<storeVars, flowVars, limVars, moreVars, slog, api>>
notAdaptive == <<storeVars, flowVars, limVars, retryVars, ctx, dflt, slog, api>>
notContext == <<storeVars, flowVars, limVars, retryVars, adaptive, dflt, slog, api>>
notDefault == <<storeVars, flowVars, limVars, retryVars, adaptive, ctx, slog, api>>
notJournal == <<clock, writer, flowVars, limVars, retryVars, moreVars, api>>
notApi     == <<storeVars, flowVars, limVars, moreVars, slog>>
vars      == <<redis, clock, writer, run, hist, bucket, now, task, lhist, retry,
               adaptive, ctx, slog, api, dflt>>

(***************************************************************************)
(* ---------------------------  STATE STORE  ----------------------------- *)
(***************************************************************************)

\* Bound: the largest value datetime.now() takes in the model.
MaxClock == 1

\* Ids callers assign to farms. "1e2" is an id that happens to read as a JSON
\* number; "f1" and "f2" are ordinary slugs. Ids are the ids the store
\* specifications use, FlowIds those of the workflow specification.
Ids == {"f1", "1e2"}
FlowIds == {"f1", "f2", "1e2"}

\* get_farm parses every hash field with json.loads and keeps the raw string
\* only when that fails (redis_storage.py 135-139). A slug is not JSON and
\* stays as it is; the text 1e2 is the JSON number 100.0, and formatting that
\* number into a key or a set member gives "100.0".
ParseField(v) == IF v = "1e2" THEN "100.0" ELSE v

\* Every string that can name a farm:{id} hash or be a member of an index set.
Keys == (Ids \cup FlowIds) \cup {ParseField(i) : i \in Ids \cup FlowIds}

\* Values of contact.website: a site of the farm's own, a social-media page.
Websites == {"https://farm.example", "https://facebook.com/farm"}

\* farm dicts handed to save_farm / found in a snapshot: a function from the
\* keys that are present to their values. "website" stands for
\* contact.website (a farm without "website" has no contact entry).
FarmsOver(ids, descs, sites) ==
    UNION { [ {"id"} -> ids ],
            { [f \in {"id", "description"} |->
                  IF f = "id" THEN i ELSE d] : i \in ids, d \in descs },
            { [f \in {"id", "website"} |->
                  IF f = "id" THEN i ELSE w] : i \in ids, w \in sites },
            { [f \in {"id", "description", "website"} |->
                  IF f = "id" THEN i ELSE IF f = "description" THEN d ELSE w]
                  : i \in ids, d \in descs, w \in sites } }
    \cup { [f \in {"website"} |-> w] : w \in sites }

Farms == FarmsOver(Ids, {"d1"}, Websites)

\* Records of a snapshot file / of a list handed to save_farms_batch.
SnapshotFarms == FarmsOver(Ids, {"d1"}, {"https://farm.example"})

\* dict.get(key, default)
Get(d, key, default) == IF key \in DOMAIN d THEN d[key] ELSE default

\* `any(social in website.lower() for social in [...])`
IsSocial(website) == website = "https://facebook.com/farm"

EmptyHash == [f \in {} |-> ""]

RedisInit ==
    [all |-> {}, processed |-> {}, failed |-> {}, needs |-> {},
     hash |-> [k \in Keys |-> EmptyHash]]

\* The commands of one farm with the tracking set chosen from the stored
\* hash (after the HSET) instead of from the farm handed in.
QueueFarmFromHash(r, farm) ==
    LET farm_id == farm["id"]
        stored == farm @@ r.hash[farm_id]
        needsIt == /\ Get(stored, "description", "") = ""
                   /\ Get(stored, "website", "") # ""
                   /\ ~IsSocial(Get(stored, "website", ""))
    IN [r EXCEPT
          !.hash[farm_id] = stored,
          !.all = @ \cup {farm_id},
          !.processed = IF Get(stored, "description", "") # ""
                        THEN @ \cup {farm_id} ELSE @,
          !.needs = IF needsIt THEN @ \cup {farm_id} ELSE @]

\* The commands one farm contributes to a pipeline (save_farm 63-77,
\* save_farms_batch 100-111): HSET farm:{id} merges the fields into the hash,
\* SADD farms:all, and one SADD into a tracking set or none.
QueueFarm(r, farm) ==
    LET farm_id == farm["id"]
        needsIt == /\ Get(farm, "description", "") = ""
                   /\ Get(farm, "website", "") # ""
                   /\ ~IsSocial(Get(farm, "website", ""))
    IN [r EXCEPT
          !.hash[farm_id] = farm @@ @,
          !.all = @ \cup {farm_id},
          !.processed = IF Get(farm, "description", "") # ""
                        THEN @ \cup {farm_id} ELSE @,
          !.needs = IF needsIt THEN @ \cup {farm_id} ELSE @]

\* FarmStorage.save_farm: False and no change for a farm without an id.
SaveFarmResult(r, farm) ==
    IF Get(farm, "id", "") = "" THEN r ELSE QueueFarm(r, farm)

\* FarmStorage.clear_all_data: DEL of every key matching farms:* - the index
\* sets. The farm:{id} hashes do not match the pattern and stay.
ClearResult(r) ==
    [r EXCEPT !.all = {}, !.processed = {}, !.failed = {}, !.needs = {}]

\* FarmStorage.save_farms_batch: one pipeline over the farms in order; farms
\* without an id are skipped.
RECURSIVE BatchResult(_, _)
BatchResult(r, farms) ==
    IF farms = <<>> THEN r
    ELSE BatchResult(SaveFarmResult(r, Head(farms)), Tail(farms))

\* FarmStorage.import_from_json of a readable snapshot: clear, then batch save.
ImportResult(r, farms) == BatchResult(ClearResult(r), farms)

\* The pipeline of update_farm_description (188-193), executed as one
\* MULTI/EXEC: two HSETs, SADD farms:processed, SREM farms:needs_description.
\* No command reads the current status of farm_id.
UpdateResult(r, farm_id, description, stamp) ==
    [r EXCEPT
       !.hash[farm_id] =
           [f \in {"description", "updatedAt"} |->
               IF f = "description" THEN description ELSE stamp] @@ @,
       !.processed = @ \cup {farm_id},
       !.needs = @ \ {farm_id}]

\* FarmStorage.get_farm: None for an empty hash, else every field parsed.
GetFarm(r, farm_id) ==
    [f \in DOMAIN r.hash[farm_id] |->
        IF f = "updatedAt" THEN r.hash[farm_id][f]
        ELSE ParseField(r.hash[farm_id][f])]

\* FarmStorage.get_farms_needing_descriptions: the members of
\* farms:needs_description whose hash is not empty.
FarmsNeedingDescriptions(r) ==
    {k \in r.needs : r.hash[k] # EmptyHash}

\* FarmStorage.get_pipeline_status: the four cardinalities.
PipelineStatus(r) ==
    [total_farms |-> Cardinality(r.all),
     processed_farms |-> Cardinality(r.processed),
     failed_farms |-> Cardinality(r.failed),
     needs_description |-> Cardinality(r.needs)]

(***************************************************************************)
(* SpecStore: one client calling the operations of FarmStorage in any     *)
(* order.  Every operation sends one pipeline, so each is one step.       *)
(***************************************************************************)

\* Bound: the longest list handed to save_farms_batch / found in a snapshot.
MaxBatch == 2

SeqsUpTo(S, n) == UNION { [1..k -> S] : k \in 0..n }

\* What the index sets say about an id: the item's status as a caller sees it.
StatusOf(r, id) ==
    IF id \in r.needs THEN "pending"
    ELSE IF id \in r.processed THEN "processed"
    ELSE IF id \in r.failed THEN "failed"
    ELSE "none"

Writers == {"w1", "w2"}

WriterIdle ==
    [pc |-> "idle", farm_id |-> "", description |-> "", stamp |-> 0,
     result |-> FALSE, raced |-> FALSE, atExec |-> "none", changed |-> FALSE]

StoreInit ==
    /\ redis = RedisInit
    /\ clock = 0
    /\ writer = [w \in Writers |-> WriterIdle]

\* save_farm(farm)
SaveFarm(farm) ==
    /\ redis' = SaveFarmResult(redis, farm)
    /\ UNCHANGED <<clock, writer, notStore>>

\* save_farms_batch(farms)
SaveFarmsBatch(farms) ==
    /\ redis' = BatchResult(redis, farms)
    /\ UNCHANGED <<clock, writer, notStore>>

\* clear_all_data()
ClearAllData ==
    /\ redis' = ClearResult(redis)
    /\ UNCHANGED <<clock, writer, notStore>>

\* import_from_json(file) for a snapshot file holding `farms`
ImportFromJson(farms) ==
    /\ redis' = ImportResult(redis, farms)
    /\ UNCHANGED <<clock, writer, notStore>>

\* update_farm_description(farm_id, description) by a single caller
UpdateFarmDescription(farm_id, description) ==
    /\ redis' = UpdateResult(redis, farm_id, description, clock)
    /\ UNCHANGED <<clock, writer, notStore>>

\* datetime.now() advances.
ClockTick ==
    /\ clock < MaxClock
    /\ clock' = clock + 1
    /\ UNCHANGED <<redis, writer, notStore>>

StoreNext ==
    \/ \E farm \in Farms : SaveFarm(farm)
    \/ \E farms \in SeqsUpTo(SnapshotFarms, MaxBatch) : SaveFarmsBatch(farms)
    \/ ClearAllData
    \/ \E farms \in SeqsUpTo(SnapshotFarms, MaxBatch) : ImportFromJson(farms)
    \/ \E id \in Ids : UpdateFarmDescription(id, "d2")

(***************************************************************************)
(* SpecRace: two callers of update_farm_description on one id.  A call    *)
(* fills its pipeline (reading datetime.now()) and then executes it; both *)
(* callers may be between the two steps at once.                          *)
(***************************************************************************)

RaceId == "f1"

\* update_farm_description, lines 186-192: the pipeline is filled; the
\* timestamp is read now. raced records, for the claims, whether the other
\* caller is in flight on the same id.
UpdateQueue(w, id, description) ==
    /\ writer[w].pc = "idle"
    /\ writer' = [writer EXCEPT ![w] =
          [@ EXCEPT !.pc = "queued", !.farm_id = id,
                    !.description = description, !.stamp = clock,
                    !.raced = \E o \in Writers \ {w} :
                                 /\ writer[o].pc = "queued"
                                 /\ writer[o].farm_id = id]]
    /\ UNCHANGED <<redis, clock, notStore>>

\* update_farm_description, lines 193-196: pipe.execute() and return True.
\* atExec / changed record, for the claims, the status the id had when the
\* pipeline ran and whether the run changed the store.
UpdateExec(w) ==
    /\ writer[w].pc = "queued"
    /\ redis' = UpdateResult(redis, writer[w].farm_id, writer[w].description,
                             writer[w].stamp)
    /\ writer' = [writer EXCEPT ![w] =
          [@ EXCEPT !.pc = "done", !.result = TRUE,
                    !.atExec = StatusOf(redis, writer[w].farm_id),
                    !.changed = (redis' # redis)]]
    /\ UNCHANGED <<clock, notStore>>

\* update_farm_description, lines 198-200: execute() raises (the server is
\* unreachable); the error is logged and False is returned.
UpdateError(w) ==
    /\ writer[w].pc = "queued"
    /\ writer' = [writer EXCEPT ![w] =
          [@ EXCEPT !.pc = "done", !.result = FALSE, !.atExec = "error"]]
    /\ UNCHANGED <<redis, clock, notStore>>

\* The description a caller writes: its own.
DescriptionOf(w) == IF w = "w1" THEN "d1" ELSE "d2"

RaceNext ==
    \/ \E farm \in FarmsOver({RaceId}, {"d1"}, Websites) : SaveFarm(farm)
    \/ \E w \in Writers : UpdateQueue(w, RaceId, DescriptionOf(w))
    \/ \E w \in Writers : UpdateExec(w)
    \/ \E w \in Writers : UpdateError(w)
    \/ ClockTick

(***************************************************************************)
(* SpecJournal: one client calling the operations of FarmStorage on one   *)
(* id, with a journal of the last operation: what it was, the snapshot it *)
(* imported, the counts and the stored records it found.                  *)
(***************************************************************************)

\* Bound: the longest snapshot imported under SpecJournal.
MaxSnapshot == 2

JournalId == "f1"

\* Records of the snapshots and farms saved under SpecJournal.
JournalFarms == FarmsOver({JournalId}, {"d1"}, {"https://farm.example"})

JournalIdle ==
    [op |-> "none", farms |-> <<>>, again |-> FALSE,
     first |-> PipelineStatus(RedisInit), had |-> {}]

\* The journal entry of an operation about to run: again says that it
\* imports the snapshot the operation before it imported, first holds the
\* counts of get_pipeline_status before it, had the ids get_farm finds.
Entry(op, farms) ==
    [op |-> op, farms |-> farms,
     again |-> (op = "import" /\ slog.op = "import" /\ slog.farms = farms),
     first |-> PipelineStatus(redis),
     had |-> {k \in Keys : GetFarm(redis, k) # EmptyHash}]

\* save_farm(farm)
Saved(farm) ==
    /\ redis' = SaveFarmResult(redis, farm)
    /\ slog' = Entry("save", <<>>)
    /\ UNCHANGED notJournal

\* update_farm_description(farm_id, description)
Updated(farm_id, description) ==
    /\ redis' = UpdateResult(redis, farm_id, description, clock)
    /\ slog' = Entry("update", <<>>)
    /\ UNCHANGED notJournal

\* clear_all_data()
Cleared ==
    /\ redis' = ClearResult(redis)
    /\ slog' = Entry("clear", <<>>)
    /\ UNCHANGED notJournal

\* import_from_json(file) for a snapshot file holding `farms`
Imported(farms) ==
    /\ redis' = ImportResult(redis, farms)
    /\ slog' = Entry("import", farms)
    /\ UNCHANGED notJournal

\* results['success'] of save_farms_batch when its pipeline has executed
\* (line 115), which import_from_json returns (267-270).
BatchSuccess(farms) == Len(farms)

\* The ways import_from_json comes to return zero successes without saving:
\* the file is missing (254-256), it cannot be opened or parsed (258-259,
\* 272-274), or the pipeline of save_farms_batch raises (114, 117-119).
ImportFailures == {"missing", "unreadable", "save"}

\* The store after such an import: clear_all_data (264) has run when the
\* snapshot was read and the batch save failed, and not otherwise; a
\* pipeline that raises applies none of its commands.
ImportFailureResult(r, cause) == IF cause = "save" THEN ClearResult(r) ELSE r

\* import_from_json(file) failing for `cause`
ImportFailed(cause) ==
    /\ redis' = ImportFailureResult(redis, cause)
    /\ slog' = Entry("import_failed", <<>>)
    /\ UNCHANGED notJournal

JournalNext ==
    \/ \E farm \in JournalFarms : Saved(farm)
    \/ Updated(JournalId, "d2")
    \/ Cleared
    \/ \E farms \in SeqsUpTo(JournalFarms, MaxSnapshot) : Imported(farms)
    \/ \E cause \in ImportFailures : ImportFailed(cause)


(***************************************************************************)
(* ------------------  REDIS DESCRIPTION WORKFLOW  ----------------------- *)
(* SpecWorkflow: runs of redis_description_workflow.main over a store     *)
(* filled by an import, with interruptions and restarts; nothing else     *)
(* writes to the store.                                                   *)
(***************************************************************************)

\* Bound standing for BATCH_SIZE (20 in the source): farms per batch.
BatchSize == 2

Min(a, b) == IF a < b THEN a ELSE b

\* What a snapshot holds for one id: nothing, a farm that needs a
\* description, a farm that has one, or a farm without a website.
SnapshotRecords(id) ==
    { [f \in {"website"} |-> "https://farm.example"],
      [f \in {"id", "website"} |->
          IF f = "id" THEN id ELSE "https://farm.example"],
      [f \in {"id", "description", "website"} |->
          IF f = "id" THEN id
          ELSE IF f = "description" THEN "d1" ELSE "https://farm.example"],
      [f \in {"id"} |-> id] }

RunIdle ==
    [pc |-> "idle", farms |-> <<>>, i |-> 0, max_batches |-> 0,
     batch_results |-> [success |-> 0, failed |-> 0]]

\* The history of the workflow. Per batch it also holds: storeErr, the
\* update of the last farm found the store unreachable; after, a farm was
\* handled after an earlier farm of the batch had failed; asked, the
\* requests sent to the DeepSeek service.
HistInit ==
    [updated |-> {}, again |-> {}, seen |-> {}, twice |-> {},
     ok |-> {}, bad |-> {}, other |-> FALSE, storeErr |-> FALSE,
     after |-> FALSE, asked |-> 0]

FlowInit ==
    /\ \E a \in SnapshotRecords("f1"), b \in SnapshotRecords("f2"),
          c \in SnapshotRecords("1e2") :
          redis = ImportResult(RedisInit, <<a, b, c>>)
    /\ clock = 0
    /\ writer = [w \in Writers |-> WriterIdle]
    /\ run = RunIdle
    /\ hist = HistInit

\* The orders in which SMEMBERS may return the members of a set.
Orders(S) ==
    { q \in [1..Cardinality(S) -> S] : \A k \in S : \E n \in DOMAIN q : q[n] = k }

\* main, lines 294-299: the number of batches the loop runs.
TotalBatches(n) == (n + BatchSize - 1) \div BatchSize
BatchLimit(n, max_batches) ==
    Min(n, (IF max_batches # 0 THEN max_batches ELSE TotalBatches(n)) * BatchSize)

\* Last index (1-based) of the batch that holds index i.
BatchEnd(i, n) == Min(n, (((i - 1) \div BatchSize) + 1) * BatchSize)

\* main, lines 265-306: the pending farms are listed once, in the order the
\* set is returned; with none the run ends, otherwise the first batch begins.
StartRun(order, max_batches) ==
    /\ run.pc = "idle"
    /\ order \in Orders(FarmsNeedingDescriptions(redis))
    /\ run' = IF order = <<>> THEN RunIdle
              ELSE [pc |-> "batch",
                    farms |-> [n \in DOMAIN order |-> GetFarm(redis, order[n])],
                    i |-> 1, max_batches |-> max_batches,
                    batch_results |-> [success |-> 0, failed |-> 0]]
    /\ hist' = [hist EXCEPT !.seen = {}, !.twice = {}, !.ok = {}, !.bad = {},
                            !.other = FALSE, !.storeErr = FALSE,
                            !.after = FALSE, !.asked = 0]
    /\ UNCHANGED <<redis, notFlow>>

\* The counters after one farm (process_farm_batch 204-243): one count for
\* the outcome of scrape / generate / update, and one more failure when
\* save_to_csv raises, which the except clause counts.
CountFarm(results, scraped, generated, updated, csv) ==
    LET first == IF scraped /\ generated /\ updated
                 THEN [results EXCEPT !.success = @ + 1]
                 ELSE [results EXCEPT !.failed = @ + 1]
    IN IF csv THEN first ELSE [first EXCEPT !.failed = @ + 1]

\* A batch in which an exception of save_to_csv is not caught.
CaughtButCsv(phase) == phase # "csv"

\* Whether an exception raised in a phase of one farm is caught before it
\* leaves process_farm_batch: by scrape_farm_website itself (163-167), by
\* generate_description_with_deepseek itself (114-118), by
\* update_farm_description itself (198-200), and for save_to_csv by the
\* `except Exception` around the farm (241-243).
Caught(phase) == phase \in {"scrape", "generate", "update", "csv"}

\* process_farm_batch, lines 197-246: one farm of the batch. The parameters
\* are the outcomes of scraping, of the DeepSeek call, of
\* update_farm_description and of save_to_csv. An exception that nothing
\* catches leaves process_farm_batch (pc "raised"). A scraped farm has
\* generate_description_with_deepseek (83-118) called for it, which posts
\* the request at once: the module has no rate limiter and no retry wrapper,
\* so the step leaves the limiter and the wrapper as they are.
ProcessFarm(scraped, generated, updated, csv) ==
    /\ run.pc = "batch"
    /\ LET farm == run.farms[run.i]
           farm_id == Get(farm, "id", "Unknown")
           wrote == scraped /\ generated /\ updated
           n == Len(run.farms)
           failing == IF ~scraped THEN {"scrape"}
                      ELSE IF ~generated THEN {"generate"}
                      ELSE IF ~updated THEN {"update"} ELSE {}
           escaped == \/ \E phase \in failing : ~Caught(phase)
                      \/ ~csv /\ ~Caught("csv")
       IN /\ redis' = IF wrote THEN UpdateResult(redis, farm_id, "d2", clock)
                      ELSE redis
          /\ run' = IF escaped THEN [run EXCEPT !.pc = "raised"]
                    ELSE [run EXCEPT
                !.batch_results = CountFarm(@, scraped, generated, updated, csv),
                !.i = @ + 1,
                !.pc = IF run.i = BatchEnd(run.i, n) THEN "batch_end" ELSE "batch"]
          /\ hist' = [hist EXCEPT
                !.storeErr = scraped /\ generated /\ ~updated,
                !.asked = IF scraped THEN @ + 1 ELSE @,
                !.after = @ \/ hist.bad # {} \/ hist.other,
                !.updated = IF wrote THEN @ \cup {farm_id} ELSE @,
                !.again = IF farm_id \in hist.updated THEN @ \cup {farm_id} ELSE @,
                !.twice = IF farm_id \in hist.seen THEN @ \cup {farm_id} ELSE @,
                !.seen = @ \cup {farm_id},
                !.ok = IF wrote THEN @ \cup {farm_id} ELSE @,
                !.bad = IF ~(scraped /\ generated) THEN @ \cup {farm_id} ELSE @,
                !.other = @ \/ (scraped /\ generated /\ ~updated) \/ ~csv]
    /\ UNCHANGED notFlow

\* process_farm_batch 248-252 and main 308-321: the batch returns its counts;
\* main goes on to the next batch or ends the run.
EndBatch ==
    /\ run.pc = "batch_end"
    /\ run' = IF run.i > BatchLimit(Len(run.farms), run.max_batches)
              THEN RunIdle
              ELSE [run EXCEPT !.pc = "batch",
                               !.batch_results = [success |-> 0, failed |-> 0]]
    /\ hist' = [hist EXCEPT !.ok = {}, !.bad = {}, !.other = FALSE,
                            !.storeErr = FALSE, !.after = FALSE,
                            !.asked = 0]
    /\ UNCHANGED <<redis, notFlow>>

\* The process is interrupted or killed: what it held in memory is lost.
Interrupt ==
    /\ run.pc # "idle"
    /\ run' = RunIdle
    /\ hist' = [hist EXCEPT !.ok = {}, !.bad = {}, !.other = FALSE,
                            !.storeErr = FALSE, !.after = FALSE,
                            !.asked = 0]
    /\ UNCHANGED <<redis, notFlow>>

FlowNext ==
    \/ \E order \in SeqsUpTo(Keys, Cardinality(FlowIds)), m \in {0, 1} :
          StartRun(order, m)
    \/ \E scraped \in BOOLEAN, generated \in BOOLEAN, updated \in BOOLEAN,
          csv \in BOOLEAN : ProcessFarm(scraped, generated, updated, csv)
    \/ EndBatch
    \/ Interrupt


(***************************************************************************)
(* --------------------------  RATE LIMITER  ----------------------------- *)
(* Time is counted in ticks and tokens in units of 1/TimeWindow of a      *)
(* token, so that refill = elapsed * (max_requests / time_window) tokens  *)
(* is the whole number elapsed * max_requests of units.                   *)
(***************************************************************************)

\* Bounds: time_window in ticks, the largest max_requests and burst_size a
\* limiter is built with, and the last tick of the clock.
TimeWindow == 2
MaxRate == 2
MaxBurst == 2
MaxNow == 3

Tasks == {"t1", "t2", "t3"}

Max(a, b) == IF a > b THEN a ELSE b
CeilDiv(a, b) == (a + b - 1) \div b

\* A limiter whose bucket starts with max_requests tokens, not burst_size.
NewLimiterAtRate(max_requests, burst_size, t) ==
    LET burst == IF burst_size # 0 THEN burst_size ELSE max_requests
    IN [max_requests |-> max_requests, burst_size |-> burst,
        tokens |-> max_requests * TimeWindow, last_update |-> t, lock |-> "free"]

\* RateLimiter.__init__ (55-61): burst_size defaults to max_requests when it
\* is None (or 0); the bucket starts full; last_update is the time of building.
NewLimiter(max_requests, burst_size, t) ==
    LET burst == IF burst_size # 0 THEN burst_size ELSE max_requests
    IN [max_requests |-> max_requests, burst_size |-> burst,
        tokens |-> burst * TimeWindow, last_update |-> t, lock |-> "free"]

\* The valid configurations: max_requests >= 1, burst_size None or >= max_requests.
Configs ==
    { c \in (1..MaxRate) \X (0..MaxBurst) : c[2] = 0 \/ c[2] >= c[1] }

\* Refill without the cap at burst_size.
RefillUncapped(b, t) ==
    [b EXCEPT !.tokens = b.tokens + (t - b.last_update) * b.max_requests,
              !.last_update = t]

\* A refill of max_requests tokens for every tick instead of every window.
RefillPerTick(b, t) ==
    [b EXCEPT !.tokens = Min(b.burst_size * TimeWindow,
                 b.tokens + (t - b.last_update) * b.max_requests * TimeWindow),
              !.last_update = t]

\* A refill that fills the bucket whatever time has passed.
RefillToBurst(b, t) ==
    [b EXCEPT !.tokens = b.burst_size * TimeWindow, !.last_update = t]

\* acquire, lines 73-78: the refill, in units.
Refill(b, t) ==
    [b EXCEPT !.tokens = Min(b.burst_size * TimeWindow,
                             b.tokens + (t - b.last_update) * b.max_requests),
              !.last_update = t]

\* acquire, lines 86-87: wait_time = tokens_needed / max_requests * time_window,
\* in ticks; a sleep ends at the first tick not before its end.
WaitTime(b, n) == CeilDiv(n * TimeWindow - b.tokens, b.max_requests)

\* A task before it calls acquire. slept and naps are history: whether the
\* task has slept for tokens, and how many times.
TaskIdle == [pc |-> "idle", n |-> 0, wake |-> 0, slept |-> FALSE, naps |-> 0]

LHistInit == [granted |-> 0, first |-> -1]

LimiterInit ==
    /\ \E c \in Configs : bucket = NewLimiter(c[1], c[2], 0)
    /\ now = 0
    /\ task = [t \in Tasks |-> TaskIdle]
    /\ lhist = LHistInit

\* A task calls acquire(n) and reaches `async with self.lock`.
Call(t, n) ==
    /\ task[t].pc = "idle"
    /\ task' = [task EXCEPT ![t] = [@ EXCEPT !.pc = "lock_wait", !.n = n]]
    /\ UNCHANGED <<bucket, now, lhist, notLimiter>>

\* The lock is taken: on entry (line 70) or after a sleep (line 94).
TakeLock(t) ==
    /\ task[t].pc \in {"lock_wait", "relock"}
    /\ bucket.lock = "free"
    /\ bucket' = [bucket EXCEPT !.lock = t]
    /\ task' = [task EXCEPT ![t] = [@ EXCEPT !.pc = "attempt"]]
    /\ UNCHANGED <<now, lhist, notLimiter>>

\* A task that goes to sleep without releasing the lock.
LockKeptWhileWaiting(t) == t

\* `self.lock.release()` before `await asyncio.sleep(wait_time)` (92-93):
\* the holder of the lock while task t sleeps.
LockWhileWaiting(t) == "free"

\* One pass of the loop, lines 72-93, under the lock: refill, then either
\* take the tokens and return (the lock is released on leaving the with
\* block), or release the lock and sleep for wait_time.
Attempt(t) ==
    /\ task[t].pc = "attempt"
    /\ bucket.lock = t
    /\ LET b == Refill(bucket, now)
           cost == task[t].n * TimeWindow
       IN IF b.tokens >= cost
          THEN /\ bucket' = [b EXCEPT !.tokens = @ - cost, !.lock = "free"]
               /\ task' = [task EXCEPT ![t] = [@ EXCEPT !.pc = "done"]]
               /\ lhist' = [granted |-> lhist.granted + 1,
                            first |-> IF lhist.first < 0 THEN now ELSE lhist.first]
          ELSE /\ bucket' = [b EXCEPT !.lock = LockWhileWaiting(t)]
               /\ task' = [task EXCEPT ![t] =
                     [@ EXCEPT !.pc = "sleeping", !.slept = TRUE,
                               !.naps = @ + 1,
                               !.wake = now + WaitTime(b, task[t].n)]]
               /\ UNCHANGED lhist
    /\ UNCHANGED <<now, notLimiter>>

\* asyncio.sleep(wait_time) is over.
Wake(t) ==
    /\ task[t].pc = "sleeping"
    /\ now >= task[t].wake
    /\ task' = [task EXCEPT ![t] = [@ EXCEPT !.pc = "relock", !.wake = 0]]
    /\ UNCHANGED <<bucket, now, lhist, notLimiter>>

\* time.time() advances.
Tick ==
    /\ now < MaxNow
    /\ now' = now + 1
    /\ UNCHANGED <<bucket, task, lhist, notLimiter>>

\* Every request size a task may ask for, one more than the largest bucket holds.
Demand == 1..(MaxBurst + 1)

LimiterSteps(demand) ==
    \/ \E t \in Tasks, n \in demand : Call(t, n)
    \/ \E t \in Tasks : TakeLock(t)
    \/ \E t \in Tasks : Attempt(t)
    \/ \E t \in Tasks : Wake(t)
    \/ Tick

(***************************************************************************)
(* SpecStream: one waiter and a stream of later callers on one limiter.   *)
(* The waiter calls acquire once, for any number of tokens the bucket can *)
(* hold; the later callers ask for one token each, and when the acquire   *)
(* of one has returned the next caller of the stream takes its place.     *)
(* The contention is sustained: whenever the clock moves, the stream has  *)
(* left less than one token in the bucket.                                *)
(***************************************************************************)

Waiter == "t1"
LaterCallers == Tasks \ {Waiter}

\* The acquire of a later caller has returned (line 83) and the next caller
\* of the stream arrives.
NextCaller(t) ==
    /\ task[t].pc = "done"
    /\ task' = [task EXCEPT ![t] = TaskIdle]
    /\ UNCHANGED <<bucket, now, lhist, notLimiter>>

\* `self.tokens >= tokens` (line 81) fails for a single token at time t.
Drained(b, t) == Refill(b, t).tokens < TimeWindow

\* time.time() advances while the stream keeps the bucket drained.
StreamTick == Drained(bucket, now) /\ Tick

StreamNext ==
    \/ \E n \in 1..bucket.burst_size : Call(Waiter, n)
    \/ \E t \in LaterCallers : Call(t, 1)
    \/ \E t \in LaterCallers : NextCaller(t)
    \/ \E t \in Tasks : TakeLock(t)
    \/ \E t \in Tasks : Attempt(t)
    \/ \E t \in Tasks : Wake(t)
    \/ StreamTick


(***************************************************************************)
(* SpecCancel: the tasks of SpecLimiter, any of which may be cancelled    *)
(* while it sleeps for tokens.                                            *)
(***************************************************************************)

\* An event loop that resumes a cancelled task while another task is in the
\* middle of its pass.
RunningNever(tk) == FALSE

\* acquire has no await between taking the lock (70, 94) and giving it up
\* (83, 92): a task that is in its pass of the loop runs on to that point
\* before the event loop resumes any other task.
Running(tk) == \E u \in Tasks : tk[u].pc = "attempt"

\* task.cancel() on a task that sleeps at line 93: the event loop resumes
\* it with CancelledError, which leaves the `async with self.lock` block of
\* line 70, whose exit calls self.lock.release(). release() unlocks a locked
\* lock whoever took it, and raises RuntimeError on a lock that is free; the
\* task leaves acquire with that error, or else with CancelledError.
Cancel(t) ==
    /\ task[t].pc = "sleeping"
    /\ ~Running(task)
    /\ bucket' = [bucket EXCEPT !.lock = "free"]
    /\ task' = [task EXCEPT ![t] =
          [@ EXCEPT !.pc = IF bucket.lock = "free"
                           THEN "runtime_error" ELSE "cancelled"]]
    /\ UNCHANGED <<now, lhist, notLimiter>>

CancelNext ==
    \/ LimiterSteps(Demand)
    \/ \E t \in Tasks : Cancel(t)

(***************************************************************************)
(* SpecFair: a finite demand on one limiter under fair scheduling.  Each  *)
(* task calls acquire at most once, for a number of tokens the bucket can *)
(* hold.  The event loop runs every task that is ready (weak fairness of  *)
(* its steps), and time advances while a task sleeps for tokens.          *)
(***************************************************************************)

\* The time by which a bucket refilling one unit per tick has refilled the
\* requests of all tasks: no sleep of SpecFair ends later.
Horizon == Cardinality(Tasks) * MaxBurst * TimeWindow

\* time.time() advances while asyncio.sleep(wait_time) of some task runs.
Pass ==
    /\ \E t \in Tasks : task[t].pc = "sleeping" /\ task[t].wake > now
    /\ now < Horizon
    /\ now' = now + 1
    /\ UNCHANGED <<bucket, task, lhist, notLimiter>>

FairNext ==
    \/ \E t \in Tasks, n \in 1..bucket.burst_size : Call(t, n)
    \/ \E t \in Tasks : TakeLock(t)
    \/ \E t \in Tasks : Attempt(t)
    \/ \E t \in Tasks : Wake(t)
    \/ Pass

\* The event loop resumes a task whose lock is free, whose pass is due or
\* whose sleep is over, and the clock does not stop.
Fairness ==
    /\ \A t \in Tasks : WF_vars(TakeLock(t))
    /\ \A t \in Tasks : WF_vars(Attempt(t))
    /\ \A t \in Tasks : WF_vars(Wake(t))
    /\ WF_vars(Pass)

(***************************************************************************)
(* SpecDefault: invocations of rate_limited_call that pass no             *)
(* rate_limiter, one after another or at the same time.  Each is one      *)
(* step: the limiter it builds is full, so its acquire returns at once.   *)
(***************************************************************************)

\* `RateLimiter(max_requests=10, time_window=1.0)` (line 319)
DefaultRate == 10

\* Bound: the invocations of rate_limited_call made without a rate_limiter.
MaxDefaultCalls == 11

\* No invocation yet: no limiter has been built. returned and raised count
\* the invocations whose func returned and raised.
DefaultIdle == [limiter |-> <<>>, returned |-> 0, raised |-> 0]

\* rate_limited_call(func) with rate_limiter None (318-322): a RateLimiter
\* is built for this invocation, `async with` acquires one token from it
\* (the pass of acquire, lines 73-83, on the new bucket), and func is
\* awaited; ok says whether func returns or raises. The limiter is dropped
\* when the invocation ends; dflt.limiter keeps the last one for the claims.
DefaultCall(ok) ==
    /\ dflt.returned + dflt.raised < MaxDefaultCalls
    /\ LET b == Refill(NewLimiter(DefaultRate, 0, now), now)
       IN /\ b.tokens >= TimeWindow
          /\ dflt' = [limiter |-> <<[b EXCEPT !.tokens = @ - TimeWindow]>>,
                      returned |-> IF ok THEN dflt.returned + 1 ELSE dflt.returned,
                      raised |-> IF ok THEN dflt.raised ELSE dflt.raised + 1]
    /\ UNCHANGED notDefault

DefaultNext ==
    \/ \E ok \in BOOLEAN : DefaultCall(ok)
    \/ Tick

(***************************************************************************)
(* ----------------------  ADAPTIVE RATE LIMITER  ------------------------ *)
(* SpecAdaptive: one AdaptiveRateLimiter and any sequence of on_success   *)
(* and on_rate_limit calls on it.  Rates and factors are exact fractions  *)
(* <<numerator, denominator>>; the rounding of floating-point products is *)
(* not modelled.                                                          *)
(***************************************************************************)

\* Bound: the number of on_success / on_rate_limit calls made on one limiter.
MaxCalls == 21

\* `if self.consecutive_successes >= 10` (line 167)
SuccessThreshold == 10

RECURSIVE Gcd(_, _)
Gcd(a, b) == IF b = 0 THEN a ELSE Gcd(b, a % b)

\* Fractions in lowest terms.
Frac(n, d) == <<n \div Gcd(n, d), d \div Gcd(n, d)>>
Times(p, q) == Frac(p[1] * q[1], p[2] * q[2])
Below(p, q) == p[1] * q[2] < q[1] * p[2]
Least(p, q) == IF Below(q, p) THEN q ELSE p
Most(p, q) == IF Below(p, q) THEN q ELSE p
\* int(x) of a fraction that is not negative
Trunc(p) == p[1] \div p[2]

\* The limiters built: (min_rate, max_rate) with min_rate <= max_rate, an
\* initial_rate below, inside or above that range, and an increase_factor;
\* decrease_factor is the default 0.5.
RateRanges == { <<Frac(1, 1), Frac(4, 1)>>, <<Frac(2, 1), Frac(2, 1)>> }
InitialRates == { Frac(1, 2), Frac(1, 1), Frac(3, 1), Frac(5, 1) }
IncreaseFactors == { Frac(11, 10), Frac(2, 1) }
DecreaseFactor == Frac(1, 2)

\* _update_limiter (204-210) and __init__ (148-152): the inner RateLimiter
\* for a rate, with max_requests=int(rate) and burst_size=int(rate * 2).
LimiterFor(rate, t) == NewLimiter(Trunc(rate), Trunc(Times(rate, Frac(2, 1))), t)

\* AdaptiveRateLimiter.__init__ (142-156). h is the history kept for the
\* claims: the number of calls, the last call, the rate before it, the
\* on_success calls since the last on_rate_limit (since) and before it
\* (prior), the on_success calls that changed the rate (ups), and the
\* initial rate.
NewAdaptive(initial_rate, min_rate, max_rate, increase_factor, decrease_factor, t) ==
    [current_rate |-> initial_rate, min_rate |-> min_rate, max_rate |-> max_rate,
     increase_factor |-> increase_factor, decrease_factor |-> decrease_factor,
     limiter |-> LimiterFor(initial_rate, t),
     success_count |-> 0, consecutive_successes |-> 0,
     h |-> [calls |-> 0, op |-> "init", before |-> initial_rate,
            since |-> 0, prior |-> 0, ups |-> 0, initial |-> initial_rate]]

AdaptiveInit ==
    \E range \in RateRanges, rate \in InitialRates, inc \in IncreaseFactors :
       adaptive = NewAdaptive(rate, range[1], range[2], inc, DecreaseFactor, 0)

\* The threshold test one success late.
ReachedThresholdLate(n) == n > SuccessThreshold

\* `self.consecutive_successes >= 10` (line 167)
ReachedThreshold(n) == n >= SuccessThreshold

\* _increase_rate (178-182): the new rate.
IncreasedRate(a) == Least(a.max_rate, Times(a.current_rate, a.increase_factor))

\* _decrease_rate (192-196): the new rate.
DecreasedRate(a) == Most(a.min_rate, Times(a.current_rate, a.decrease_factor))

\* _increase_rate / _decrease_rate, lines 184-188 and 198-202: the rate is
\* set, and the inner limiter is rebuilt only when the rate changed.
WithRate(a, rate, t) ==
    [a EXCEPT !.current_rate = rate,
              !.limiter = IF rate # a.current_rate THEN LimiterFor(rate, t) ELSE @]

\* on_success (162-169)
OnSuccess ==
    /\ adaptive.h.calls < MaxCalls
    /\ LET n == adaptive.consecutive_successes + 1
           a == IF ReachedThreshold(n)
                THEN [WithRate(adaptive, IncreasedRate(adaptive), now)
                         EXCEPT !.consecutive_successes = 0]
                ELSE [adaptive EXCEPT !.consecutive_successes = n]
       IN adaptive' = [a EXCEPT
             !.h = [@ EXCEPT !.calls = @ + 1, !.op = "on_success",
                             !.before = adaptive.current_rate,
                             !.since = @ + 1,
                             !.ups = IF a.current_rate # adaptive.current_rate
                                     THEN @ + 1 ELSE @]]
    /\ UNCHANGED notAdaptive

\* on_rate_limit (171-174)
OnRateLimit ==
    /\ adaptive.h.calls < MaxCalls
    /\ LET a == [WithRate(adaptive, DecreasedRate(adaptive), now)
                    EXCEPT !.consecutive_successes = 0]
       IN adaptive' = [a EXCEPT
             !.h = [@ EXCEPT !.calls = @ + 1, !.op = "on_rate_limit",
                             !.before = adaptive.current_rate,
                             !.prior = adaptive.h.since, !.since = 0]]
    /\ UNCHANGED notAdaptive

AdaptiveNext ==
    \/ OnSuccess
    \/ OnRateLimit

(***************************************************************************)
(* -----------------------------  RETRY  --------------------------------- *)
(* SpecRetry: one call of the wrapper that retry_async builds around an   *)
(* operation, for every max_attempts >= 1, with and without an on_retry   *)
(* callback, and for every sequence of outcomes of the operation.         *)
(***************************************************************************)

\* Bound: the largest max_attempts a wrapper is built with.
MaxAttempts == 4
\* base_delay (default 1.0 s) and a bound standing for max_delay, in seconds.
BaseDelay == 1
MaxDelay == 2

\* What one invocation of the operation does: it returns, raises an exception
\* of one of the `exceptions` types, or raises another exception.
Outcomes == {"ok", "retryable", "other"}
\* The values the operation may return.
Values == {"r1", "r2"}

RECURSIVE Pow2(_)
Pow2(n) == IF n = 0 THEN 1 ELSE 2 * Pow2(n - 1)

\* A backoff that is not clamped at max_delay.
ExponentialBackoffUnclamped(attempt) ==
    LET delay == BaseDelay * Pow2(attempt)
        jitter_range == delay
    IN { Max(0, d) : d \in (4 * delay - jitter_range)..(4 * delay + jitter_range) }

\* exponential_backoff (35-42), in quarters of a second: the clamped delay,
\* moved by any amount within a quarter of itself either way, never negative.
ExponentialBackoff(attempt) ==
    LET delay == Min(BaseDelay * Pow2(attempt), MaxDelay)
        jitter_range == delay
    IN { Max(0, d) : d \in (4 * delay - jitter_range)..(4 * delay + jitter_range) }

\* A wrapper that handles every exception.
RetryableAny(outcome) == outcome # "ok"

\* `except exceptions as e` (line 78): the exceptions the wrapper handles.
Retryable(outcome) == outcome = "retryable"

\* The last-attempt test off by one.
LastAttemptLate(attempt, max_attempts) == attempt = max_attempts

\* `if attempt == max_attempts - 1` (line 81)
LastAttempt(attempt, max_attempts) == attempt = max_attempts - 1

Nothing == [kind |-> "none", by |-> 0, value |-> ""]

\* A call of the wrapper, at `for attempt in range(max_attempts)` (73-75).
NewCall(max_attempts, on_retry) ==
    [pc |-> "attempting", max_attempts |-> max_attempts, on_retry |-> on_retry,
     attempt |-> 0, calls |-> 0, fails |-> 0, waits |-> 0,
     callbacks |-> 0, logged |-> 0, delay |-> 0, last |-> "none",
     outcome |-> Nothing]

RetryInit ==
    \E m \in 1..MaxAttempts, cb \in BOOLEAN : retry = NewCall(m, cb)

\* Lines 76-94: the operation is invoked. Its value is returned; an exception
\* the wrapper does not handle leaves the wrapper; a handled one is re-raised
\* on the last attempt and otherwise the delay is computed.
Invoked(w, o, d, v) ==
    LET c == w.calls + 1
        r == [w EXCEPT !.calls = c, !.last = o]
    IN IF o = "ok"
       THEN [r EXCEPT !.pc = "returned",
                      !.outcome = [kind |-> "value", by |-> c, value |-> v]]
       ELSE IF ~Retryable(o)
       THEN [r EXCEPT !.pc = "raised",
                      !.outcome = [kind |-> "error", by |-> c, value |-> ""]]
       ELSE IF LastAttempt(w.attempt, w.max_attempts)
       THEN [r EXCEPT !.pc = "raised", !.fails = @ + 1,
                      !.outcome = [kind |-> "error", by |-> c, value |-> ""]]
       ELSE [r EXCEPT !.pc = IF w.on_retry THEN "callback" ELSE "waiting",
                      !.fails = @ + 1, !.delay = d]

Invoke(o, d, v) ==
    /\ retry.pc = "attempting"
    /\ d \in ExponentialBackoff(retry.attempt)
    /\ retry' = Invoked(retry, o, d, v)
    /\ UNCHANGED notRetry

\* Lines 97-101: on_retry(attempt, e, delay) is awaited; an exception it
\* raises is logged and the loop goes on.
OnRetry(raises) ==
    /\ retry.pc = "callback"
    /\ retry' = [retry EXCEPT !.pc = "waiting", !.callbacks = @ + 1,
                               !.logged = IF raises THEN @ + 1 ELSE @]
    /\ UNCHANGED notRetry

\* Lines 104-107: asyncio.sleep(delay), then the next pass of the loop; when
\* the range is used up, last_exception is raised.
Sleep ==
    /\ retry.pc = "waiting"
    /\ retry' = [retry EXCEPT
          !.waits = @ + 1, !.attempt = @ + 1, !.delay = 0,
          !.pc = IF retry.attempt + 1 < retry.max_attempts
                 THEN "attempting" ELSE "raised",
          !.outcome = IF retry.attempt + 1 < retry.max_attempts
                      THEN @ ELSE [kind |-> "error", by |-> retry.calls,
                                   value |-> ""]]
    /\ UNCHANGED notRetry

RetryNext ==
    \/ \E o \in Outcomes, d \in 0..(5 * MaxDelay), v \in Values :
          Invoke(o, d, v)
    \/ \E raises \in BOOLEAN : OnRetry(raises)
    \/ Sleep

(***************************************************************************)
(* SpecApi: farm_description_workflow.process_farm_batch over a batch of  *)
(* farms.  scrape_farm_website and generate_description_with_deepseek are *)
(* wrapped by retry_async with API_RETRY_CONFIG; `retry` is the call of   *)
(* the wrapper in flight.  The wrapper is never left waiting, because the *)
(* wrapped functions raise no exception it handles, so its callback and   *)
(* sleep steps are no steps of this specification.                        *)
(***************************************************************************)

\* Bound: the farms of the batch.
ApiFarms == 3

\* API_RETRY_CONFIG['max_attempts']
ApiMaxAttempts == 5

\* What the HTTP request of one invocation does: answers 200, answers
\* another status, raises ConnectionError or TimeoutError, or the task is
\* cancelled while waiting for it (CancelledError is not an Exception).
HttpOutcomes == {"200", "500", "ConnectionError", "TimeoutError", "cancelled"}
Transient == {"ConnectionError", "TimeoutError"}

\* What the wrapper sees of one invocation of the wrapped function:
\* scrape_farm_website (120-170) and generate_description_with_deepseek
\* (243-288) catch every Exception and return a dict, so the invocation
\* returns ("ok"); only a BaseException leaves it, and that is none of
\* API_RETRY_CONFIG['exceptions'] ("other").
BodyOutcome(http) == IF http = "cancelled" THEN "other" ELSE "ok"

\* The 'status' of the dict returned.
BodyStatus(http) == IF http = "200" THEN "success" ELSE "error"

ApiStart ==
    [pc |-> "scrape", i |-> 1, results |-> <<>>, http |-> "none", tries |-> 0]

ApiInit ==
    /\ api = ApiStart
    /\ retry = NewCall(ApiMaxAttempts, FALSE)

\* One invocation of the wrapped function by the wrapper (retry.py 75-94).
\* http and tries are history: the outcome of the request and the
\* invocations made for the operation so far.
Request(http, d) ==
    /\ api.pc \in {"scrape", "generate"}
    /\ retry.pc = "attempting"
    /\ d \in ExponentialBackoff(retry.attempt)
    /\ retry' = Invoked(retry, BodyOutcome(http), d, BodyStatus(http))
    /\ api' = [api EXCEPT !.http = http, !.tries = @ + 1]
    /\ UNCHANGED notApi

\* process_farm_batch (327-364) after the wrapper returned or raised: an
\* exception ends the batch; a scraped page goes to the generation; any
\* other result closes the item, and the next item or the end follows.
Continue ==
    /\ api.pc \in {"scrape", "generate"}
    /\ retry.pc \in {"returned", "raised"}
    /\ LET status == retry.outcome.value
           closed(result) ==
               [api EXCEPT !.results = Append(@, result), !.i = @ + 1,
                           !.tries = 0,
                           !.pc = IF api.i = ApiFarms THEN "done" ELSE "scrape"]
       IN api' =
            IF retry.pc = "raised" THEN [api EXCEPT !.pc = "raised"]
            ELSE IF api.pc = "scrape" /\ status = "success"
            THEN [api EXCEPT !.pc = "generate", !.tries = 0]
            ELSE IF api.pc = "scrape" THEN closed("scrape_error")
            ELSE IF status = "success" THEN closed("updated")
            ELSE closed("generate_error")
    /\ retry' = NewCall(ApiMaxAttempts, FALSE)
    /\ UNCHANGED notApi

ApiNext ==
    \/ \E http \in HttpOutcomes, d \in 0..(5 * MaxDelay) : Request(http, d)
    \/ Continue

(***************************************************************************)
(* SpecContext: one RetryContext object and the `async with` statement    *)
(* that uses it.  The caller may execute the statement again on the same  *)
(* object.                                                                *)
(***************************************************************************)

\* Bound: how often the caller executes the `async with` statement.
MaxEntries == 4

\* RetryContext.__init__ (187-191); calls, waits, last, delay and swallowed
\* are history: the invocations of the body, the sleeps, the outcome of the
\* last invocation, the delay of the sleep and the exceptions suppressed.
NewContext(max_attempts) ==
    [pc |-> "body", max_attempts |-> max_attempts, attempt |-> 0,
     calls |-> 0, waits |-> 0, last |-> "none", delay |-> 0, swallowed |-> 0]

ContextInit == \E m \in 1..MaxAttempts : ctx = NewContext(m)

\* __aenter__ (193-194), the body of the statement with outcome o, and
\* __aexit__ (196-219) up to its sleep: without an exception, or with one
\* of another type, __aexit__ returns False; with one of the `exceptions`
\* types it counts the attempt and either sleeps or returns False.
RunBody(o, d) ==
    /\ ctx.pc = "body"
    /\ d \in ExponentialBackoff(ctx.attempt)
    /\ LET c == [ctx EXCEPT !.calls = @ + 1, !.last = o]
       IN ctx' =
            IF o = "ok" THEN [c EXCEPT !.pc = "after"]
            ELSE IF ~Retryable(o) THEN [c EXCEPT !.pc = "raised"]
            ELSE IF ctx.attempt + 1 < ctx.max_attempts
            THEN [c EXCEPT !.attempt = @ + 1, !.pc = "sleeping", !.delay = d]
            ELSE [c EXCEPT !.attempt = @ + 1, !.pc = "raised"]
    /\ UNCHANGED notContext

\* __aexit__, lines 212-213: the sleep is over and True is returned: the
\* exception is suppressed and control passes to the statement after the
\* `async with` block.
Suppress ==
    /\ ctx.pc = "sleeping"
    /\ ctx' = [ctx EXCEPT !.pc = "after", !.waits = @ + 1, !.delay = 0,
                          !.swallowed = @ + 1]
    /\ UNCHANGED notContext

\* The caller executes the statement once more on the same object.
Reenter ==
    /\ ctx.pc \in {"after", "raised"}
    /\ ctx.calls < MaxEntries
    /\ ctx' = [ctx EXCEPT !.pc = "body"]
    /\ UNCHANGED notContext

ContextNext ==
    \/ \E o \in Outcomes, d \in 0..(5 * MaxDelay) : RunBody(o, d)
    \/ Suppress
    \/ Reenter

(***************************************************************************)
(* ------------------------  SPECIFICATIONS  ----------------------------- *)
(***************************************************************************)

RetryIdle ==
    [pc |-> "returned", max_attempts |-> 1, on_retry |-> FALSE,
     attempt |-> 0, calls |-> 0, fails |-> 0, waits |-> 0,
     callbacks |-> 0, logged |-> 0, delay |-> 0, last |-> "none",
     outcome |-> Nothing]

\* The components a specification does not exercise, as built and unused.
AdaptiveIdle ==
    NewAdaptive(Frac(1, 1), Frac(1, 1), Frac(1, 1), Frac(1, 1), Frac(1, 1), 0)
ContextIdle == [NewContext(1) EXCEPT !.pc = "after"]
ApiIdle == [ApiStart EXCEPT !.pc = "done"]

NoLimiter ==
    /\ bucket = NewLimiter(1, 0, 0) /\ now = 0
    /\ task = [t \in Tasks |-> TaskIdle] /\ lhist = LHistInit
NoFlow == run = RunIdle /\ hist = HistInit
NoStore ==
    /\ redis = RedisInit /\ clock = 0
    /\ writer = [w \in Writers |-> WriterIdle]
    /\ slog = JournalIdle

InitStore ==
    /\ StoreInit /\ slog = JournalIdle
    /\ NoFlow /\ NoLimiter
    /\ retry = RetryIdle /\ api = ApiIdle
    /\ adaptive = AdaptiveIdle /\ ctx = ContextIdle
    /\ dflt = DefaultIdle

InitWorkflow ==
    /\ FlowInit /\ slog = JournalIdle
    /\ NoLimiter
    /\ retry = RetryIdle /\ api = ApiIdle
    /\ adaptive = AdaptiveIdle /\ ctx = ContextIdle
    /\ dflt = DefaultIdle

InitLimiter ==
    /\ LimiterInit
    /\ NoStore /\ NoFlow
    /\ retry = RetryIdle /\ api = ApiIdle
    /\ adaptive = AdaptiveIdle /\ ctx = ContextIdle
    /\ dflt = DefaultIdle

InitRetry ==
    /\ RetryInit /\ api = ApiIdle
    /\ NoStore /\ NoFlow /\ NoLimiter
    /\ adaptive = AdaptiveIdle /\ ctx = ContextIdle
    /\ dflt = DefaultIdle

InitAdaptive ==
    /\ AdaptiveInit
    /\ NoStore /\ NoFlow /\ NoLimiter
    /\ retry = RetryIdle /\ api = ApiIdle
    /\ ctx = ContextIdle
    /\ dflt = DefaultIdle

InitContext ==
    /\ ContextInit
    /\ NoStore /\ NoFlow /\ NoLimiter
    /\ retry = RetryIdle /\ api = ApiIdle
    /\ adaptive = AdaptiveIdle
    /\ dflt = DefaultIdle

InitDefault ==
    /\ dflt = DefaultIdle
    /\ NoStore /\ NoFlow /\ NoLimiter
    /\ retry = RetryIdle /\ api = ApiIdle
    /\ adaptive = AdaptiveIdle /\ ctx = ContextIdle

InitApi ==
    /\ ApiInit
    /\ NoStore /\ NoFlow /\ NoLimiter
    /\ adaptive = AdaptiveIdle /\ ctx = ContextIdle
    /\ dflt = DefaultIdle

LimiterNext == LimiterSteps(Demand)
BurstNext == LimiterSteps({1})

SpecStore == InitStore /\ [][StoreNext]_vars
SpecRace == InitStore /\ [][RaceNext]_vars
SpecWorkflow == InitWorkflow /\ [][FlowNext]_vars
SpecLimiter == InitLimiter /\ [][LimiterNext]_vars
SpecBurst == InitLimiter /\ [][BurstNext]_vars
SpecStream == InitLimiter /\ [][StreamNext]_vars
SpecCancel == InitLimiter /\ [][CancelNext]_vars
SpecFair == InitLimiter /\ [][FairNext]_vars /\ Fairness
SpecDefault == InitDefault /\ [][DefaultNext]_vars
SpecRetry == InitRetry /\ [][RetryNext]_vars
SpecJournal == InitStore /\ [][JournalNext]_vars
SpecAdaptive == InitAdaptive /\ [][AdaptiveNext]_vars
SpecContext == InitContext /\ [][ContextNext]_vars
SpecApi == InitApi /\ [][ApiNext]_vars

Spec == SpecStore

(***************************************************************************)
(* ----------------------------  CLAIMS  --------------------------------- *)
(***************************************************************************)

\* C1: in every reachable state of the store, farms:needs_description,
\* farms:processed and farms:failed are pairwise disjoint and their union is
\* farms:all.
C1_Partition ==
    /\ redis.needs \cap redis.processed = {}
    /\ redis.needs \cap redis.failed = {}
    /\ redis.processed \cap redis.failed = {}
    /\ redis.needs \cup redis.processed \cup redis.failed = redis.all

\* C2: when two callers of update_farm_description are in flight on the same
\* pending id and the server answers both, exactly one call succeeds.
C2_ExactlyOneWins ==
    \A a \in Writers, b \in Writers :
       ( /\ a # b
         /\ writer[a].pc = "done" /\ writer[b].pc = "done"
         /\ writer[a].farm_id = writer[b].farm_id
         /\ writer[a].raced \/ writer[b].raced
         /\ writer[a].atExec = "pending"
         /\ writer[b].atExec # "error" )
       => (writer[a].result /\ ~writer[b].result)

\* C3: an update_farm_description executed for an id that is not pending
\* (processed already, or unknown to the store) fails and changes nothing.
C3_StaleRejected ==
    \A w \in Writers :
       (writer[w].pc = "done" /\ writer[w].atExec \in {"processed", "failed", "none"})
       => (~writer[w].result /\ ~writer[w].changed)

\* C4: when process_farm_batch returns from a batch without store or CSV
\* errors, farms:failed holds exactly the farms whose scrape or generation
\* failed, the farms that succeeded are in farms:processed, and the counts
\* returned are the sizes of the two groups.
C4_FailuresRecorded ==
    (run.pc = "batch_end" /\ ~hist.other)
    => /\ redis.failed = hist.bad
       /\ hist.ok \subseteq redis.processed
       /\ run.batch_results.success = Cardinality(hist.ok)
       /\ run.batch_results.failed = Cardinality(hist.bad)

\* C5: across runs, interruptions and restarts no farm is handed to the
\* operation after update_farm_description succeeded for its id, and within
\* one run no farm is handed to the operation twice.
C5_NoDoubleProcessing == hist.again = {} /\ hist.twice = {}

\* C5, the part that holds: only an id that get_farm's parsing changes is
\* handed to the operation again, and none twice within a run.
C5_OnlyReparsedIds ==
    /\ hist.again \subseteq {ParseField(i) : i \in {j \in FlowIds : ParseField(j) # j}}
    /\ hist.twice = {}

\* C6: the bucket never holds fewer than 0 tokens nor more than burst_size.
C6_TokenBounds ==
    /\ 0 <= bucket.tokens
    /\ bucket.tokens <= bucket.burst_size * TimeWindow

\* C6 witness: a task that had to sleep got its tokens and left the bucket empty.
C6_Witness ==
    \E t \in Tasks : task[t].pc = "done" /\ task[t].slept /\ bucket.tokens = 0

\* C7: a call of acquire(n) with n > burst_size never sleeps.
C7_OversizeFailsFast ==
    \A t \in Tasks : task[t].n > bucket.burst_size => ~task[t].slept

\* C8: on a fresh limiter asked for one token at a time, no call sleeps
\* before burst_size calls have returned, and more than burst_size calls have
\* returned only when time_window / max_requests has passed since the first.
C8_BurstThenThrottle ==
    /\ \A t \in Tasks : task[t].slept => lhist.granted >= bucket.burst_size
    /\ lhist.granted > bucket.burst_size
          => (now - lhist.first) * bucket.max_requests >= TimeWindow

\* C8 witness: burst_size calls returned at once and one more after its sleep.
C8_Witness ==
    /\ lhist.granted = bucket.burst_size + 1
    /\ bucket.burst_size > bucket.max_requests
    /\ \E t \in Tasks : task[t].pc = "done" /\ task[t].slept

\* C9: a wrapper whose operation raised k handled exceptions and then returned
\* gives that value after k + 1 invocations and k waits, k < max_attempts; a
\* wrapper that ends with a handled exception made max_attempts invocations
\* and max_attempts - 1 waits and raises the exception of the last one.
C9_BoundedRetry ==
    /\ retry.pc = "returned" /\ retry.calls > 0
          => /\ retry.fails < retry.max_attempts
             /\ retry.calls = retry.fails + 1
             /\ retry.waits = retry.fails
             /\ retry.outcome.kind = "value" /\ retry.outcome.by = retry.calls
    /\ retry.pc = "raised" /\ retry.last = "retryable"
          => /\ retry.fails = retry.max_attempts
             /\ retry.calls = retry.max_attempts
             /\ retry.waits = retry.max_attempts - 1
             /\ retry.outcome.kind = "error"
             /\ retry.outcome.by = retry.max_attempts

\* C9 witness: max_attempts = 3, two handled failures, then the value.
C9_Witness ==
    /\ retry.pc = "returned" /\ retry.max_attempts = 3
    /\ retry.fails = 2 /\ retry.calls = 3

\* C10: once an invocation raised an exception the wrapper does not handle,
\* the wrapper has raised that exception and there has been no invocation,
\* wait or on_retry call after it.
C10_PermanentNotRetried ==
    retry.last = "other"
    => /\ retry.pc = "raised"
       /\ retry.outcome.kind = "error" /\ retry.outcome.by = retry.calls
       /\ retry.calls = retry.fails + 1
       /\ retry.waits = retry.fails
       /\ retry.callbacks = IF retry.on_retry THEN retry.fails ELSE 0

\* C10 witness: an unhandled exception on the second of three attempts.
C10_Witness ==
    /\ retry.last = "other" /\ retry.pc = "raised"
    /\ retry.calls = 2 /\ retry.max_attempts = 3 /\ retry.on_retry

\* C11: an on_success call changes current_rate only when it is the 10th,
\* 20th, ... success since the last on_rate_limit (or since construction),
\* and then sets it to min(max_rate, current_rate * increase_factor) and the
\* counter to 0; every on_rate_limit sets current_rate to
\* max(min_rate, current_rate * decrease_factor) and the counter to 0; after
\* 9 successes, one on_rate_limit and 9 successes no success changed the rate.
C11_AdjustmentRule ==
    LET h == adaptive.h
    IN /\ (h.op = "on_success" /\ h.since % 10 # 0)
             => /\ adaptive.current_rate = h.before
                /\ adaptive.consecutive_successes = h.since % 10
       /\ (h.op = "on_success" /\ h.since % 10 = 0)
             => /\ adaptive.current_rate =
                      Least(adaptive.max_rate,
                            Times(h.before, adaptive.increase_factor))
                /\ adaptive.consecutive_successes = 0
       /\ h.op = "on_rate_limit"
             => /\ adaptive.current_rate =
                      Most(adaptive.min_rate,
                           Times(h.before, adaptive.decrease_factor))
                /\ adaptive.consecutive_successes = 0
       /\ (h.calls = 19 /\ h.prior = 9 /\ h.since = 9) => h.ups = 0

\* C11 witness: 9 successes, an on_rate_limit and 10 successes, of which
\* only the last changed the rate.
C11_Witness ==
    /\ adaptive.h.calls = 20 /\ adaptive.h.prior = 9 /\ adaptive.h.since = 10
    /\ adaptive.h.op = "on_success" /\ adaptive.h.ups = 1
    /\ adaptive.current_rate # adaptive.h.before

\* C12: min_rate <= current_rate <= max_rate in the initial state and after
\* every on_success and on_rate_limit call, for every limiter built with
\* min_rate <= max_rate.
C12_RateWithinBounds ==
    /\ ~Below(adaptive.current_rate, adaptive.min_rate)
    /\ ~Below(adaptive.max_rate, adaptive.current_rate)

\* C12, the part that holds: a limiter whose initial_rate lies within
\* [min_rate, max_rate] keeps its rate within it.
C12_WithinBoundsFromInside ==
    ( /\ ~Below(adaptive.h.initial, adaptive.min_rate)
      /\ ~Below(adaptive.max_rate, adaptive.h.initial) )
    => C12_RateWithinBounds

\* C13: after an import_from_json that repeats the import before it, of the
\* same snapshot, get_pipeline_status gives the counts it gave before.
C13_ImportIdempotent ==
    (slog.op = "import" /\ slog.again) => PipelineStatus(redis) = slog.first

\* C13 witness: a snapshot with two records of one id, one pending and one
\* described, imported twice in succession.
C13_Witness ==
    /\ slog.op = "import" /\ slog.again /\ Len(slog.farms) = 2
    /\ slog.first.needs_description = 1 /\ slog.first.processed_farms = 1

\* C14: after import_from_json, for every id of the snapshot get_farm gives
\* the last record of the snapshot with that id, and the id is in exactly
\* one tracking set: farms:processed when that record has a description,
\* farms:needs_description otherwise.
C14_ImportLastWriteWins ==
    slog.op = "import" =>
       \A n \in DOMAIN slog.farms :
          LET id == Get(slog.farms[n], "id", "")
              last == CHOOSE m \in DOMAIN slog.farms :
                         /\ Get(slog.farms[m], "id", "") = id
                         /\ \A k \in DOMAIN slog.farms :
                               Get(slog.farms[k], "id", "") = id => k <= m
              implied == IF Get(slog.farms[last], "description", "") # ""
                         THEN "processed" ELSE "needs"
              member == {x \in {"needs", "processed", "failed"} : id \in redis[x]}
          IN id # "" => /\ GetFarm(redis, id) = slog.farms[last]
                        /\ member = {implied}

\* C15: process_farm_batch never raises, whatever fails for a farm, and at
\* the end of a batch every farm of the batch has been handled and counted.
C15_ItemFailuresContained ==
    /\ run.pc # "raised"
    /\ run.pc = "batch_end" =>
          LET last == run.i - 1
              first == ((last - 1) \div BatchSize) * BatchSize + 1
          IN /\ last = BatchEnd(last, Len(run.farms))
             /\ \A n \in first..last :
                   Get(run.farms[n], "id", "Unknown") \in hist.seen
             /\ run.batch_results.success + run.batch_results.failed
                   >= last - first + 1

\* C15 witness: a batch ended in which a scrape or generation failed, an
\* update or CSV write failed, and a farm was handled after a failure.
C15_Witness ==
    /\ run.pc = "batch_end" /\ hist.after
    /\ hist.bad # {} /\ hist.other /\ hist.ok # {}

\* C16: when update_farm_description finds the store unreachable, the error
\* leaves process_farm_batch.
C16_StoreErrorPropagates == hist.storeErr => run.pc = "raised"

\* C17: when the wrapper around scrape_farm_website or
\* generate_description_with_deepseek returns a result after a request that
\* raised ConnectionError or TimeoutError, the function has been invoked
\* API_RETRY_CONFIG['max_attempts'] times.
C17_TransientRetried ==
    (retry.pc = "returned" /\ api.http \in Transient) => api.tries = ApiMaxAttempts

\* C17, what holds instead: the wrapper never waits and never invokes the
\* function twice for one operation.
C17_WrapperNeverWaits ==
    /\ retry.pc \notin {"waiting", "callback"}
    /\ api.tries <= 1

\* C18: the `async with RetryContext` statement completes normally only
\* when the last invocation of its body succeeded, and it raises an
\* exception of a retryable type only after max_attempts invocations.
C18_ContextRetries ==
    /\ ctx.pc = "after" => ctx.last = "ok"
    /\ (ctx.pc = "raised" /\ ctx.last = "retryable" /\ ctx.swallowed = 0)
          => ctx.calls >= ctx.max_attempts

\* C19: after clear_all_data get_farm finds none of the ids it found before
\* and all counts are zero; after any other operation get_farm finds every
\* id it found before.
C19_ClearRemovesAll ==
    /\ slog.op = "clear" =>
          /\ \A k \in slog.had : GetFarm(redis, k) = EmptyHash
          /\ PipelineStatus(redis) = PipelineStatus(RedisInit)
    /\ slog.op \in {"save", "update", "import"} =>
          \A k \in slog.had : GetFarm(redis, k) # EmptyHash

\* C20: a task holds the limiter's lock exactly while it runs one pass of
\* refill / check / decrement: never while it waits for the lock or sleeps,
\* and never two tasks at once.
C20_CriticalSection ==
    /\ \A t \in Tasks : bucket.lock = t <=> task[t].pc = "attempt"
    /\ \A t, u \in Tasks :
          (task[t].pc = "attempt" /\ task[u].pc = "attempt") => t = u

\* C20 witness: one task sleeps, another waits for the lock, and a third
\* holds it.
C20_Witness ==
    \E t, u, v \in Tasks :
       /\ task[t].pc = "sleeping" /\ task[u].pc = "lock_wait"
       /\ task[v].pc = "attempt" /\ bucket.lock = v

\* C21: every request the Redis workflow's process_farm_batch sent to the
\* DeepSeek service in the current batch was preceded by a completed acquire
\* on a rate limiter and was made by an invocation of the retry wrapper.
C21_AdmissionPrecedes ==
    hist.asked > 0
    => /\ lhist.granted >= hist.asked
       /\ retry.calls >= hist.asked

\* C22: after every on_rate_limit call, and after every on_success call that
\* reaches the threshold of 10, the inner limiter is a bucket built by that
\* call: its max_requests equals the new current_rate and its burst_size
\* and its number of tokens equal twice the new current_rate.
C22_RebuiltForNewRate ==
    LET h == adaptive.h
        rate == adaptive.current_rate
        limiter == adaptive.limiter
    IN ( \/ h.op = "on_rate_limit"
         \/ h.op = "on_success" /\ h.since % SuccessThreshold = 0 )
       => /\ limiter.max_requests * rate[2] = rate[1]
          /\ limiter.burst_size * rate[2] = 2 * rate[1]
          /\ limiter.tokens = limiter.burst_size * TimeWindow
          /\ limiter.last_update = now

C24_BackoffBounds ==
    /\ \A a \in 0..MaxAttempts : \A d \in ExponentialBackoff(a) :
          /\ 3 * Min(BaseDelay * Pow2(a), MaxDelay) <= d
          /\ d <= 5 * Min(BaseDelay * Pow2(a), MaxDelay)
          /\ 0 <= d /\ d <= 5 * MaxDelay
    /\ retry.pc \in {"callback", "waiting"}
          => /\ retry.attempt = retry.calls - 1
             /\ retry.delay \in ExponentialBackoff(retry.calls - 1)
             /\ 3 * Min(BaseDelay * Pow2(retry.calls - 1), MaxDelay) <= retry.delay
             /\ retry.delay <= 5 * Min(BaseDelay * Pow2(retry.calls - 1), MaxDelay)
             /\ retry.calls = 1
                   => 3 * BaseDelay <= retry.delay /\ retry.delay <= 5 * BaseDelay

\* C24 witness: a wrapper waits after its third invocation for the delay
\* of attempt index 2, clamped at max_delay, with the largest jitter.
C24_Witness ==
    /\ retry.pc = "waiting" /\ retry.calls = 3 /\ retry.attempt = 2
    /\ BaseDelay * Pow2(2) > MaxDelay
    /\ retry.delay = 5 * MaxDelay

\* C25: under a stream of later callers that leaves less than one token in
\* the bucket whenever the clock moves, a waiter that has slept once and
\* asks for more than one tick refills on top of a drained bucket finds, at
\* every wake-up, the tokens taken by later callers and sleeps again: its
\* acquire has not returned, however long the stream lasts.
C25_WaiterOutraced ==
    LET w == task[Waiter]
    IN (w.naps >= 1 /\ (w.n - 1) * TimeWindow >= bucket.max_requests)
       => w.pc # "done"

\* C25 witness: the waiter is asleep for the third time, while four later
\* callers have been granted their token.
C25_Witness ==
    /\ task[Waiter].pc = "sleeping" /\ task[Waiter].naps = 3
    /\ (task[Waiter].n - 1) * TimeWindow >= bucket.max_requests
    /\ lhist.granted >= 4

\* C26: the rate_limited_call invocations made without a rate_limiter draw
\* from one budget of 10 requests per second: by any time, at most one full
\* bucket plus what 10 per second have refilled since the start were
\* admitted.
C26_DefaultThrottle ==
    (dflt.returned + dflt.raised) * TimeWindow
       <= DefaultRate * TimeWindow + now * DefaultRate

\* C27: when process_farm_batch of the Redis workflow returns, the counts it
\* returns add up to the number of farms of the batch.
C27_CountedOnce ==
    run.pc = "batch_end"
    => run.batch_results.success + run.batch_results.failed
          = (run.i - 1) - ((run.i - 2) \div BatchSize) * BatchSize

\* C28: after an import_from_json that reported zero successes (the file
\* missing or unreadable, the batch save failing, or nothing to save), the
\* counts of the index sets and the ids get_farm finds are those before it.
C28_FailedImportChangesNothing ==
    ( \/ slog.op = "import_failed"
      \/ slog.op = "import" /\ BatchSuccess(slog.farms) = 0 )
    => /\ PipelineStatus(redis) = slog.first
       /\ {k \in Keys : GetFarm(redis, k) # EmptyHash} = slog.had

\* C29: in every step the limiter's lock leaves a task only by that task's
\* own pass ending (it returns or goes to sleep); and the step in which a
\* task sleeping for tokens is cancelled and leaves acquire finds the lock
\* free and leaves it free: it takes the lock from no one.
C29_LockOwnership ==
    [][ \A t \in Tasks :
          /\ (bucket.lock = t /\ bucket'.lock # t)
                => /\ task[t].pc = "attempt"
                   /\ task'[t].pc \in {"done", "sleeping"}
          /\ ( /\ task[t].pc = "sleeping"
               /\ task'[t].pc \in {"runtime_error", "cancelled"} )
                => bucket.lock = "free" /\ bucket'.lock = "free"
      ]_vars

\* C29 witness: a task was cancelled in its sleep and has left acquire, and
\* another caller has taken the lock since; a third is still asleep.
C29_Witness ==
    \E t, u, v \in Tasks :
       /\ task[t].pc \in {"runtime_error", "cancelled"}
       /\ task[u].pc = "attempt" /\ bucket.lock = u
       /\ task[v].pc = "sleeping"

\* C30: with three tasks that each call acquire at most once, for 1 to
\* burst_size tokens, every call that was made eventually returns.
C30_AcquireTerminates ==
    \A t \in Tasks : (task[t].pc # "idle") ~> (task[t].pc = "done")

\* C30 witness: all three calls have returned, one of them after sleeping
\* twice for tokens.
C30_Witness ==
    /\ \A t \in Tasks : task[t].pc = "done"
    /\ \E t \in Tasks : task[t].naps = 2

====
